---- MODULE Spec2Model ----
(***************************************************************************)
(* State-machine model of cirbo's extensions for circuit text:             *)
(*   extensions/abc_wrapper/src/run_abc.h                                  *)
(*     Io_ReadBenchNetwork  - statement loop, constant synthesis, finalize *)
(*     Io_WriteBenchOneNode / Io_WriteBenchOne - serializer                *)
(*     runAbcCommands       - read, optimize, write                        *)
(*   extensions/abc_extension/src/main.c                                   *)
(*     runAbcCommands, main - the same pipeline, and the text of main()    *)
(*   extensions/mockturtle_wrapper/src/cut_enumerates.hpp                  *)
(*     public_bench_reader, enumerate_cuts                                 *)
(* A token is a sequence of one-character strings, a statement a sequence  *)
(* of tokens (what Extra_FileReaderGetTokens hands to the loop).           *)
(***************************************************************************)
EXTENDS Naturals, Sequences, FiniteSets, TLC

VARIABLES
    input,      \* reader: the statements of the text, in order (never changes)
    rest,       \* reader: statements not yet returned by Extra_FileReaderGetTokens
    iLine,      \* reader: loop counter of Io_ReadBenchNetwork
    ntk,        \* reader: the network pNtk under construction
    alive,      \* reader: pNtk is allocated (FALSE after Abc_NtkDelete)
    fLuts,      \* reader: fLutsPresent
    pc,         \* reader: position in Io_ReadBenchNetwork
    result,     \* reader: what Io_ReadBenchNetwork returned
    err,        \* reader: the diagnostic printed on failure
    parsed,     \* reader: the network as it was when the statement loop ended
    last,       \* reader: the statement dispatched by the latest loop iteration
    g,          \* writer: the netlist given to Io_WriteBenchOne
    wpc,        \* writer: position in Io_WriteBenchOne
    wi,         \* writer: loop index i
    out,        \* writer: the text written to pFile, one line per element
    wret,       \* writer: return values seen so far from Io_WriteBenchOneNode
    impl,       \* runAbcCommands: which of the two implementations runs
    rpc,        \* runAbcCommands: position in the function
    sCommand,   \* runAbcCommands: the command string, one element per command
    heap,       \* runAbcCommands: the networks allocated after the parse
    pNtk,       \* runAbcCommands: the local pNtk (0 is NULL, else an index of heap)
    pNtkCur,    \* runAbcCommands: pAbc->pNtkCur (0 is NULL, else an index of heap)
    steps,      \* runAbcCommands: the calls made after the parse, with their argument
    buffer,     \* runAbcCommands: the text returned
    cpc,        \* enumerate_cuts: position in the function
    circuit,    \* enumerate_cuts: statements lorina::read_bench has not read yet
    pending,    \* enumerate_cuts: statements read_bench deferred, in order
    known,      \* enumerate_cuts: names read_bench knows to be defined
    signals,    \* enumerate_cuts: bench_reader.signals, name -> node index
    outputs,    \* enumerate_cuts: bench_reader.outputs
    aig,        \* enumerate_cuts: the klut_network
    rc,         \* enumerate_cuts: what lorina::read_bench returned
    index_to_node,  \* enumerate_cuts: the table, node index -> name
    enumPos,    \* enumerate_cuts: the POs of aig when cut_enumeration ran
    report      \* enumerate_cuts: the node indices reported

readerVars == <<input, rest, iLine, ntk, alive, fLuts, pc, result, err, parsed, last>>
writerVars == <<g, wpc, wi, out, wret>>
runVars == <<impl, rpc, sCommand, heap, pNtk, pNtkCur, steps, buffer>>
cutsVars == <<cpc, circuit, pending, known, signals, outputs, aig, rc, index_to_node,
              enumPos, report>>
vars == <<readerVars, writerVars, runVars, cutsVars>>

(***************************************************************************)
(* Bounds of the model.                                                    *)
(***************************************************************************)
MaxStmts == 2       \* statements in an input text
MaxNodes == 2       \* internal nodes of a netlist given to the writer

(***************************************************************************)
(* C string helpers.                                                       *)
(***************************************************************************)
Min(a, b) == IF a < b THEN a ELSE b

\* the first n characters of s, or all of s when it is shorter
Prefix(s, n) == SubSeq(s, 1, Min(n, Len(s)))

\* strncmp(a, b, n) == 0
StrnEq(a, b, n) == Prefix(a, n) = Prefix(b, n)

\* strcmp(a, b) == 0
StrEq(a, b) == a = b

\* s[i] for a 0-based index i of a NUL-terminated string
CharAt(s, i) == IF i < Len(s) THEN s[i + 1] ELSE "NUL"

(***************************************************************************)
(* Token texts.                                                            *)
(***************************************************************************)
tINPUT  == <<"I","N","P","U","T">>
tOUTPUT == <<"O","U","T","P","U","T">>
tDFF    == <<"D","F","F">>
tLUT    == <<"L","U","T">>
t0x     == <<"0","x">>
tAND    == <<"A","N","D">>
tand    == <<"a","n","d">>
tOR     == <<"O","R">>
tor     == <<"o","r">>
tNAND   == <<"N","A","N","D">>
tnand   == <<"n","a","n","d">>
tNOR    == <<"N","O","R">>
tnor    == <<"n","o","r">>
tXOR    == <<"X","O","R">>
txor    == <<"x","o","r">>
tNXOR   == <<"N","X","O","R">>
tnxor   == <<"n","x","o","r">>
tXNOR   == <<"X","N","O","R">>
txnor   == <<"x","n","o","r">>
tBUF    == <<"B","U","F">>
tbuf    == <<"b","u","f">>
tBUFF   == <<"B","U","F","F">>
tNOT    == <<"N","O","T">>
tnot    == <<"n","o","t">>
tMUX    == <<"M","U","X">>
tmux    == <<"m","u","x">>
tgnd    == <<"g","n","d">>
tvdd    == <<"v","d","d">>
tOne    == <<"1">>
tTwo    == <<"2">>

(***************************************************************************)
(* The network (Abc_Ntk_t, netlist form), as far as the reader and writer  *)
(* touch it: the ordered primary inputs, primary outputs, latches and      *)
(* nodes, each naming its nets.  A net exists once a name was resolved by  *)
(* any of the Io_ReadCreate* calls; its drivers are the objects that name  *)
(* it as their output.                                                     *)
(***************************************************************************)
EmptyNtk == [pis |-> <<>>, pos |-> <<>>, latches |-> <<>>, nodes |-> <<>>, nConstrs |-> 0]

Range(s) == {s[i] : i \in 1..Len(s)}

Io_ReadCreatePi(n, name) == [n EXCEPT !.pis = Append(@, name)]

Io_ReadCreatePo(n, name) == [n EXCEPT !.pos = Append(@, name)]

Io_ReadCreateLatch(n, nameLI, nameLO, init) ==
    [n EXCEPT !.latches = Append(@, [in |-> nameLI, out |-> nameLO, init |-> init])]

Io_ReadCreateNode(n, nameOut, names, func, tt) ==
    [n EXCEPT !.nodes = Append(@, [out |-> nameOut, fanins |-> names, func |-> func, tt |-> tt])]

Io_ReadCreateConst(n, name, fOne) ==
    Io_ReadCreateNode(n, name, <<>>, IF fOne THEN "C1" ELSE "C0", <<>>)

NetNames(n) ==
    Range(n.pis) \cup Range(n.pos)
    \cup {n.latches[i].in : i \in 1..Len(n.latches)}
    \cup {n.latches[i].out : i \in 1..Len(n.latches)}
    \cup {n.nodes[i].out : i \in 1..Len(n.nodes)}
    \cup UNION {Range(n.nodes[i].fanins) : i \in 1..Len(n.nodes)}

\* Abc_NtkFindNet(pNtk, name) != NULL
Abc_NtkFindNet(n, name) == name \in NetNames(n)

\* Abc_ObjFaninNum(pNet): the number of objects driving the net
Abc_ObjFaninNum(n, name) ==
    Cardinality({i \in 1..Len(n.pis) : n.pis[i] = name})
    + Cardinality({i \in 1..Len(n.latches) : n.latches[i].out = name})
    + Cardinality({i \in 1..Len(n.nodes) : n.nodes[i].out = name})

(***************************************************************************)
(* Hexadecimal truth tables (the LUT branch).  A truth table uTruth is a   *)
(* sequence of 4-bit digits, least significant first, 8 per 32-bit word.   *)
(***************************************************************************)
RECURSIVE Pow2(_)
Pow2(n) == IF n = 0 THEN 1 ELSE 2 * Pow2(n - 1)

HexChars == <<"0","1","2","3","4","5","6","7","8","9","A","B","C","D","E","F">>
HexLower == <<"a","b","c","d","e","f">>

\* the value of a hexadecimal character, 16 when it is none
HexVal(c) ==
    IF \E i \in 1..16 : HexChars[i] = c
    THEN (CHOOSE i \in 1..16 : HexChars[i] = c) - 1
    ELSE IF \E i \in 1..6 : HexLower[i] = c
    THEN (CHOOSE i \in 1..6 : HexLower[i] = c) + 9
    ELSE 16

Extra_TruthWordNum(nVars) == IF nVars <= 5 THEN 1 ELSE Pow2(nVars - 5)

\* nDigits = (1 << nNames) / 4, at least 1
NumDigits(nNames) == IF Pow2(nNames) \div 4 = 0 THEN 1 ELSE Pow2(nNames) \div 4

\* the hex string left-padded with '0' to nDigits characters
PadHex(pString, nDigits) ==
    IF Len(pString) < nDigits
    THEN [i \in 1..(nDigits - Len(pString)) |-> "0"] \o pString
    ELSE pString

\* Extra_ReadHexadecimal: digit k of the table is character nDigits-1-k
Extra_ReadHexadecimal(pString, nVars) ==
    LET nDigits == NumDigits(nVars)
        okAll   == \A k \in 0..(nDigits - 1) : HexVal(CharAt(pString, nDigits - 1 - k)) < 16
        sign    == [k \in 1..(8 * Extra_TruthWordNum(nVars)) |->
                      IF k <= nDigits THEN HexVal(CharAt(pString, nDigits - k)) ELSE 0]
    IN  [ok |-> okAll, sign |-> sign]

Extra_TruthIsConst0(sign) == \A k \in 1..Len(sign) : sign[k] = 0

Extra_TruthIsConst1(sign) == \A k \in 1..Len(sign) : sign[k] = 15

(***************************************************************************)
(* One iteration of the statement loop of Io_ReadBenchNetwork.             *)
(***************************************************************************)
Okay(n, fl) == [ok |-> TRUE, ntk |-> n, fLuts |-> fl, err |-> "none", line |-> 0]
Fail(n, fl, msg, line) == [ok |-> FALSE, ntk |-> n, fLuts |-> fl, err |-> msg, line |-> line]

\* the gate function of a primitive keyword, "?" when it is not recognized
GateFunc(pType) ==
    IF StrEq(pType, tAND) \/ StrEq(pType, tand) THEN "AND"
    ELSE IF StrEq(pType, tOR) \/ StrEq(pType, tor) THEN "OR"
    ELSE IF StrEq(pType, tNAND) \/ StrEq(pType, tnand) THEN "NAND"
    ELSE IF StrEq(pType, tNOR) \/ StrEq(pType, tnor) THEN "NOR"
    ELSE IF StrEq(pType, tXOR) \/ StrEq(pType, txor) THEN "XOR"
    ELSE IF StrEq(pType, tNXOR) \/ StrEq(pType, tXNOR)
            \/ StrEq(pType, tnxor) \/ StrEq(pType, txnor) THEN "NXOR"
    ELSE IF StrnEq(pType, tBUF, 3) \/ StrEq(pType, tbuf) THEN "BUF"
    ELSE IF StrEq(pType, tNOT) \/ StrEq(pType, tnot) THEN "INV"
    ELSE IF StrnEq(pType, tMUX, 3) \/ StrEq(pType, tmux) THEN "MUX"
    ELSE IF StrnEq(pType, tgnd, 3) THEN "C0"
    ELSE IF StrnEq(pType, tvdd, 3) THEN "C1"
    ELSE "?"

\* the primitive-keyword branch
DispatchGate(n, fl, toks, line) ==
    LET pType  == toks[2]
        names  == SubSeq(toks, 3, Len(toks))
        func   == GateFunc(pType)
        n1     == Io_ReadCreateNode(n, toks[1], names, func, <<>>)
    IN  IF func = "?" THEN Fail(n1, fl, "Cannot determine gate type", line)
        ELSE Okay(n1, fl)

\* SingleInputFunc with the inverter as the fall-through case
SingleInputFuncElseInv(pString) ==
    IF CharAt(pString, 0) = "2" THEN "BUF" ELSE "INV"

\* the function of a non-constant single-input table, from the first character
SingleInputFunc(pString) ==
    IF CharAt(pString, 0) = "2" THEN "BUF"
    ELSE IF CharAt(pString, 0) = "1" THEN "INV"
    ELSE "?"

\* the LUT branch
DispatchLut(n, toks) ==
    LET ppNames == SubSeq(toks, 4, Len(toks))
        nNames  == Len(toks) - 3
        sig     == toks[3]
        pString == PadHex(SubSeq(sig, 3, Len(sig)), NumDigits(nNames))
        rd      == Extra_ReadHexadecimal(pString, nNames)
    IN  IF nNames > 15 THEN Fail(n, TRUE, "Currently cannot read truth tables with more than 8 inputs", 0)
        ELSE IF ~StrnEq(sig, t0x, 2) THEN Fail(n, TRUE, "The LUT signature does not look like a hexadecimal", 0)
        ELSE IF ~rd.ok THEN Fail(n, TRUE, "Reading hexadecimal number has failed", 0)
        ELSE IF Extra_TruthIsConst0(rd.sign)
             THEN Okay(Io_ReadCreateNode(n, toks[1], <<>>, "C0", <<>>), TRUE)
        ELSE IF Extra_TruthIsConst1(rd.sign)
             THEN Okay(Io_ReadCreateNode(n, toks[1], <<>>, "C1", <<>>), TRUE)
        ELSE IF nNames > 1
             THEN Okay(Io_ReadCreateNode(n, toks[1], ppNames, "TT", rd.sign), TRUE)
        ELSE IF SingleInputFunc(pString) # "?"
             THEN Okay(Io_ReadCreateNode(n, toks[1], ppNames, SingleInputFunc(pString), <<>>), TRUE)
        ELSE Fail(Io_ReadCreateNode(n, toks[1], ppNames, "?", <<>>), TRUE,
                  "Reading truth table of single-input node has failed", 0)

\* one operand of a 6-token flip-flop: a buffer from the operand's net to the
\* net <flopout>_<operand>, and a primary output on that net
ScanOperand(n, pFlopOut, pName) ==
    LET pNetName == pFlopOut \o <<"_">> \o pName
    IN  Io_ReadCreatePo(Io_ReadCreateNode(n, pNetName, <<pName>>, "BUF", <<>>), pNetName)

\* the initial value of a latch, from the character after "DFF"
LatchInit(pType) ==
    IF CharAt(pType, 3) = "0" THEN "0"
    ELSE IF CharAt(pType, 3) = "1" THEN "1"
    ELSE "DC"

\* the DFF branch
DispatchDff(n, fl, toks) ==
    IF Len(toks) = 6
    THEN LET n0 == Io_ReadCreatePi(n, toks[1])
             n1 == ScanOperand(n0, toks[1], toks[3])
             n2 == ScanOperand(n1, toks[1], toks[4])
             n3 == ScanOperand(n2, toks[1], toks[5])
             n4 == ScanOperand(n3, toks[1], toks[6])
         IN  Okay([n4 EXCEPT !.nConstrs = @ + 1], fl)
    ELSE Okay(Io_ReadCreateLatch(n, toks[3], toks[1], LatchInit(toks[2])), fl)

\* the first token names a primary-input declaration
IsInputDecl(tok) == StrnEq(tok, tINPUT, 5)

\* the first token names a primary-output declaration
IsOutputDecl(tok) == StrnEq(tok, tOUTPUT, 5)

\* the else branch of the loop body: toks[1] is a node name, toks[2] its type
DispatchDecl(n, fl, toks, line) ==
    IF StrnEq(toks[2], tDFF, 3) THEN DispatchDff(n, fl, toks)
    ELSE IF StrEq(toks[2], tLUT) THEN DispatchLut(n, toks)
    ELSE DispatchGate(n, fl, toks, line)

\* the body of the for loop: the statement toks on line `line`
Dispatch(n, fl, toks, line) ==
    IF Len(toks) = 1 THEN Fail(n, fl, "Wrong input file format", 0)
    ELSE IF IsInputDecl(toks[1]) THEN Okay(Io_ReadCreatePi(n, toks[2]), fl)
    ELSE IF IsOutputDecl(toks[1]) THEN Okay(Io_ReadCreatePo(n, toks[2]), fl)
    ELSE DispatchDecl(n, fl, toks, line)

(***************************************************************************)
(* After the loop: constants for the undriven nets gnd, 1, vdd, 2.         *)
(***************************************************************************)
\* SynthConst without the test for an existing driver
SynthConstAlways(n, name, fOne) ==
    IF Abc_NtkFindNet(n, name) THEN Io_ReadCreateConst(n, name, fOne) ELSE n

SynthConst(n, name, fOne) ==
    IF Abc_NtkFindNet(n, name) /\ Abc_ObjFaninNum(n, name) = 0
    THEN Io_ReadCreateConst(n, name, fOne)
    ELSE n

SynthConsts(n) ==
    SynthConst(SynthConst(SynthConst(SynthConst(n, tgnd, FALSE), tOne, FALSE), tvdd, TRUE), tTwo, TRUE)

(***************************************************************************)
(* The input texts of the reader: every sequence of at most MaxStmts       *)
(* statements drawn from ReadStmts.  Each statement stands on a line of    *)
(* its own, the first on line 1.  Every statement has the tokens its       *)
(* branch indexes (a DFF or LUT statement has at least three).             *)
(***************************************************************************)
nA == <<"a">>
nB == <<"b">>
nC == <<"c">>
nY == <<"y">>
nQ == <<"q">>

\* net names that merely start with the letters of INPUT / OUTPUT
tINPUT1 == <<"I","N","P","U","T","1">>
tOUTPUX == <<"O","U","T","P","U","X">>
tinput  == <<"i","n","p","u","t">>

\* keyword spellings
tAnd    == <<"A","n","d">>
tNand   == <<"N","a","n","d">>
tNot    == <<"N","o","t">>
tbuff   == <<"b","u","f","f">>
tGND    == <<"G","N","D">>
tFOO    == <<"F","O","O">>
tBUFX   == <<"B","U","F","X">>

Keywords2 == {tAND, tand, tAnd, tOR, tor, tNAND, tNand, tNOR, tXOR, tXNOR, tNXOR, tFOO}
Keywords1 == {tBUF, tBUFF, tbuff, tBUFX, tNOT, tnot, tNot}
Keywords0 == {tgnd, tvdd, tGND}

HexSigs == {<<"0","x","0">>, <<"0","x","1">>, <<"0","x","2">>, <<"0","x","3">>,
            <<"0","x","F">>, <<"0","x","2","1">>, <<"0","x">>,
            <<"0","x","g">>, <<"2">>}

ReadStmts ==
    {<<tINPUT, nA>>, <<tINPUT, nY>>, <<tOUTPUT, nY>>,
     <<tOUTPUX, nY>>, <<tinput, nA>>, <<tINPUT1, tAND, nA, nB>>, <<nA>>}
    \cup {<<nY, k, nA, nB>> : k \in Keywords2}
    \cup {<<nY, k, nA>> : k \in Keywords1}
    \cup {<<nY, k>> : k \in Keywords0}
    \cup {<<nY, tMUX, nA, nB, nC>>}
    \cup {<<nY, tAND, tgnd, tOne>>, <<nY, tAND, tvdd, tTwo>>, <<tgnd, tAND, nA, nB>>,
          <<tOne, tBUF, nA>>, <<nY, tAND, nA, nC>>}
    \cup {<<nY, tLUT, h, nA>> : h \in HexSigs}
    \cup {<<nY, tLUT, <<"0","x","8">>, nA, nB>>,
          <<nY, tLUT, <<"0","x","1">>, nA, nA, nA, nA, nA, nA, nA, nA,
                                         nA, nA, nA, nA, nA, nA, nA, nA>>}
    \cup {<<nQ, <<"D","F","F","1">>, nA>>,
          <<nQ, <<"D","F","F","R","S","E">>, nA, nB, nA, nB>>,
          <<nQ, tDFF, nA, nB>>, <<tINPUT1, tDFF, nA>>}

RECURSIVE SeqsUpTo(_, _)
SeqsUpTo(S, n) ==
    IF n = 0 THEN {<<>>}
    ELSE LET shorter == SeqsUpTo(S, n - 1)
         IN  shorter \cup {Append(q, x) : q \in shorter, x \in S}

\* runAbcCommands is not running
RunIdle ==
    /\ impl = "none"
    /\ rpc = "off"
    /\ sCommand = <<>>
    /\ heap = <<>>
    /\ pNtk = 0
    /\ pNtkCur = 0
    /\ steps = <<>>
    /\ buffer = <<>>

\* enumerate_cuts is not running
CutsIdle ==
    /\ cpc = "off"
    /\ circuit = <<>>
    /\ pending = <<>>
    /\ known = {}
    /\ signals = <<>>
    /\ outputs = <<>>
    /\ aig = [nodes |-> <<>>, pos |-> <<>>]
    /\ rc = "none"
    /\ index_to_node = <<>>
    /\ enumPos = 0
    /\ report = <<>>

WriterIdle ==
    /\ g = EmptyNtk
    /\ wpc = "off"
    /\ wi = 0
    /\ out = <<>>
    /\ wret = <<>>

\* the state at the loop head of Io_ReadBenchNetwork for the text `text`
ReaderStart(text) ==
    /\ input = text
    /\ rest = text
    /\ iLine = 0
    /\ ntk = EmptyNtk
    /\ alive = TRUE
    /\ fLuts = FALSE
    /\ pc = "reading"
    /\ result = "none"
    /\ err = [msg |-> "none", line |-> 0]
    /\ parsed = EmptyNtk
    /\ last = <<>>

InitRead ==
    /\ \E text \in SeqsUpTo(ReadStmts, MaxStmts) : ReaderStart(text)
    /\ WriterIdle
    /\ RunIdle
    /\ CutsIdle

(***************************************************************************)
(* Io_ReadBenchNetwork, one loop iteration per step.                       *)
(***************************************************************************)
\* Abandon without the return: the diagnostic is printed and the network
\* deleted, but the loop goes on
AbandonNoReturn(r) ==
    /\ ntk' = r.ntk
    /\ fLuts' = r.fLuts
    /\ alive' = FALSE
    /\ result' = result
    /\ pc' = pc
    /\ err' = [msg |-> r.err, line |-> r.line]

\* a failing branch: print, Vec_StrFree, Abc_NtkDelete, return NULL
Abandon(r) ==
    /\ ntk' = r.ntk
    /\ fLuts' = r.fLuts
    /\ alive' = FALSE
    /\ result' = "NULL"
    /\ pc' = "failed"
    /\ err' = [msg |-> r.err, line |-> r.line]

\* a branch that completes: the loop goes on to the next statement
Continue(r) ==
    /\ ntk' = r.ntk
    /\ fLuts' = r.fLuts
    /\ UNCHANGED <<alive, result, pc, err>>

ReadStatement ==
    /\ pc = "reading"
    /\ rest # <<>>
    /\ LET toks == Head(rest)
           r    == Dispatch(ntk, fLuts, toks, iLine + 1)
       IN  /\ rest' = Tail(rest)
           /\ last' = toks
           /\ iLine' = IF r.ok THEN iLine + 1 ELSE iLine
           /\ IF r.ok THEN Continue(r) ELSE Abandon(r)
    /\ UNCHANGED <<input, parsed>>
    /\ UNCHANGED writerVars
    /\ UNCHANGED <<runVars, cutsVars>>

\* after the loop: constant synthesis, Abc_NtkFinalizeRead, and with LUTs
\* present the conversions Abc_NtkToBdd and Abc_NtkToSop, either of which
\* may fail
EndOfInput ==
    /\ pc = "reading"
    /\ rest = <<>>
    /\ parsed' = ntk
    /\ ntk' = SynthConsts(ntk)
    /\ \E bddOk, sopOk \in BOOLEAN :
          IF fLuts /\ ~(bddOk /\ sopOk)
          THEN /\ alive' = FALSE
               /\ result' = "NULL"
               /\ pc' = "failed"
               /\ err' = [msg |-> IF bddOk THEN "Converting to SOP has failed"
                                  ELSE "Converting to BDD has failed", line |-> 0]
          ELSE /\ alive' = TRUE
               /\ result' = "pNtk"
               /\ pc' = "ready"
               /\ err' = err
    /\ UNCHANGED <<input, rest, iLine, fLuts, last>>
    /\ UNCHANGED writerVars
    /\ UNCHANGED <<runVars, cutsVars>>

NextRead == ReadStatement \/ EndOfInput

SpecRead == InitRead /\ [][NextRead]_vars

(***************************************************************************)
(* The serializer: Io_WriteBenchOneNode and Io_WriteBenchOne.  A line of   *)
(* text is a sequence of characters ending with the newline.               *)
(***************************************************************************)
NL == "\n"

\* printf's %-11s: the name, left-justified in a field of 11 characters
Pad11(name) ==
    IF Len(name) < 11 THEN name \o [i \in 1..(11 - Len(name)) |-> " "] ELSE name

\* Io_WriteBenchOneNode writing every single-input node as a buffer
Io_WriteBenchOneNodeBuffOnly(node) ==
    LET nFanins == Len(node.fanins)
    IN  IF nFanins = 0
        THEN Pad11(node.out) \o <<" ","=", " ","v","d","d",NL>>
        ELSE IF nFanins = 1
        THEN Pad11(node.out) \o <<" ","="," ","B","U","F","F","(">> \o node.fanins[1] \o <<")",NL>>
        ELSE Pad11(node.out) \o <<" ","="," ","A","N","D","(">> \o node.fanins[1]
             \o <<","," ">> \o node.fanins[2] \o <<")",NL>>


\* the text Io_WriteBenchOneNode writes for a node
Io_WriteBenchOneNode(node) ==
    LET nFanins == Len(node.fanins)
    IN  IF nFanins = 0
        THEN Pad11(node.out) \o <<" ","=", " ","v","d","d",NL>>
        ELSE IF nFanins = 1
        THEN IF node.func = "BUF"
             THEN Pad11(node.out) \o <<" ","="," ","B","U","F","F","(">> \o node.fanins[1] \o <<")",NL>>
             ELSE Pad11(node.out) \o <<" ","="," ","N","O","T","(">> \o node.fanins[1] \o <<")",NL>>
        ELSE Pad11(node.out) \o <<" ","="," ","A","N","D","(">> \o node.fanins[1]
             \o <<","," ">> \o node.fanins[2] \o <<")",NL>>

\* the value Io_WriteBenchOneNode returns
Io_WriteBenchOneNodeRet(node) == 1

WriteInputLine(name) == <<"I","N","P","U","T","(">> \o name \o <<")",NL>>

WriteOutputLine(name) == <<"O","U","T","P","U","T","(">> \o name \o <<")",NL>>

WriteLatchLine(latch) ==
    Pad11(latch.out) \o <<" ","="," ","D","F","F","(">> \o latch.in \o <<")",NL>>

\* WriterObject with the loop over the POs before the loop over the PIs
WriterObjectPoFirst(graph, k) ==
    LET nPi == Len(graph.pis)
        nPo == Len(graph.pos)
        nLa == Len(graph.latches)
        nNo == Len(graph.nodes)
    IN  IF k < nPo THEN [loop |-> "po", i |-> k + 1]
        ELSE IF k < nPo + nPi THEN [loop |-> "pi", i |-> k - nPo + 1]
        ELSE IF k < nPi + nPo + nLa THEN [loop |-> "latch", i |-> k - nPi - nPo + 1]
        ELSE IF k < nPi + nPo + nLa + nNo THEN [loop |-> "node", i |-> k - nPi - nPo - nLa + 1]
        ELSE [loop |-> "end", i |-> 0]

\* the object Io_WriteBenchOne writes after k objects were written: the loop
\* that is running (PIs, POs, latches, nodes, in this order) and its index i
WriterObject(graph, k) ==
    LET nPi == Len(graph.pis)
        nPo == Len(graph.pos)
        nLa == Len(graph.latches)
        nNo == Len(graph.nodes)
    IN  IF k < nPi THEN [loop |-> "pi", i |-> k + 1]
        ELSE IF k < nPi + nPo THEN [loop |-> "po", i |-> k - nPi + 1]
        ELSE IF k < nPi + nPo + nLa THEN [loop |-> "latch", i |-> k - nPi - nPo + 1]
        ELSE IF k < nPi + nPo + nLa + nNo THEN [loop |-> "node", i |-> k - nPi - nPo - nLa + 1]
        ELSE [loop |-> "end", i |-> 0]

ReaderIdle ==
    /\ input = <<>>
    /\ rest = <<>>
    /\ iLine = 0
    /\ ntk = EmptyNtk
    /\ alive = FALSE
    /\ fLuts = FALSE
    /\ pc = "idle"
    /\ result = "none"
    /\ err = [msg |-> "none", line |-> 0]
    /\ parsed = EmptyNtk
    /\ last = <<>>

WritePi ==
    /\ wpc = "writing"
    /\ WriterObject(g, wi).loop = "pi"
    /\ out' = Append(out, WriteInputLine(g.pis[WriterObject(g, wi).i]))
    /\ wi' = wi + 1
    /\ UNCHANGED <<g, wpc, wret>>
    /\ UNCHANGED readerVars
    /\ UNCHANGED <<runVars, cutsVars>>

WritePo ==
    /\ wpc = "writing"
    /\ WriterObject(g, wi).loop = "po"
    /\ out' = Append(out, WriteOutputLine(g.pos[WriterObject(g, wi).i]))
    /\ wi' = wi + 1
    /\ UNCHANGED <<g, wpc, wret>>
    /\ UNCHANGED readerVars
    /\ UNCHANGED <<runVars, cutsVars>>

WriteLatch ==
    /\ wpc = "writing"
    /\ WriterObject(g, wi).loop = "latch"
    /\ out' = Append(out, WriteLatchLine(g.latches[WriterObject(g, wi).i]))
    /\ wi' = wi + 1
    /\ UNCHANGED <<g, wpc, wret>>
    /\ UNCHANGED readerVars
    /\ UNCHANGED <<runVars, cutsVars>>

WriteNode ==
    /\ wpc = "writing"
    /\ WriterObject(g, wi).loop = "node"
    /\ out' = Append(out, Io_WriteBenchOneNode(g.nodes[WriterObject(g, wi).i]))
    /\ wret' = Append(wret, Io_WriteBenchOneNodeRet(g.nodes[WriterObject(g, wi).i]))
    /\ wi' = wi + 1
    /\ UNCHANGED <<g, wpc>>
    /\ UNCHANGED readerVars
    /\ UNCHANGED <<runVars, cutsVars>>

\* Io_WriteBenchOne returns 1
WriteDone ==
    /\ wpc = "writing"
    /\ WriterObject(g, wi).loop = "end"
    /\ wpc' = "done"
    /\ UNCHANGED <<g, wi, out, wret>>
    /\ UNCHANGED readerVars
    /\ UNCHANGED <<runVars, cutsVars>>

(***************************************************************************)
(* The netlists given to the writer: at most MaxNodes nodes with distinct  *)
(* output nets, none of them a primary input or a latch output.            *)
(***************************************************************************)
nZ == <<"z">>
nR == <<"r">>

WNodeOuts == {nY, nZ, tINPUT1}

WNodeShapes ==
    {[fanins |-> <<nA, nB>>, func |-> "AND"],
     [fanins |-> <<nA>>, func |-> "BUF"],
     [fanins |-> <<nB>>, func |-> "INV"],
     [fanins |-> <<nA, nB, nA>>, func |-> "AND"],
     [fanins |-> <<>>, func |-> "C1"]}

WNodes == {[out |-> o, fanins |-> sh.fanins, func |-> sh.func, tt |-> <<>>] :
              o \in WNodeOuts, sh \in WNodeShapes}

DistinctOuts(ns) == \A i, j \in 1..Len(ns) : ns[i].out = ns[j].out => i = j

WPis == {<<nB, nA>>}

WLatches == {<<>>, <<[in |-> nA, out |-> nQ, init |-> "DC"], [in |-> nQ, out |-> nR, init |-> "DC"]>>}

\* the primary outputs: none, or one on every node's net, in node order
WPos(ns) == {<<>>, [i \in 1..Len(ns) |-> ns[i].out]}

InitWrite ==
    /\ \E ns \in {q \in SeqsUpTo(WNodes, MaxNodes) : DistinctOuts(q)} :
       \E ps \in WPis, ls \in WLatches, os \in WPos(ns) :
          g = [pis |-> ps, pos |-> os, latches |-> ls, nodes |-> ns, nConstrs |-> 0]
    /\ wpc = "writing"
    /\ wi = 0
    /\ out = <<>>
    /\ wret = <<>>
    /\ ReaderIdle
    /\ RunIdle
    /\ CutsIdle

(***************************************************************************)
(* Re-reading the written text: the token reader as runAbcCommands sets it *)
(* up, comment character '#', stop characters newline and carriage return, *)
(* clean characters space, tab, comma, parentheses and '='.                *)
(***************************************************************************)
CharsComment == {"#"}
CharsStop    == {"\n", "\r"}
CharsClean   == {" ", "\t", ",", "(", ")", "="}

AddTok(stmt, tok) == IF tok = <<>> THEN stmt ELSE Append(stmt, tok)

AddStmt(stmts, stmt) == IF stmt = <<>> THEN stmts ELSE Append(stmts, stmt)

\* the statements of text from character i on; tok and stmt are the token and
\* the statement being collected, cmt says that a comment is being skipped
RECURSIVE Scan(_, _, _, _, _, _)
Scan(text, i, tok, stmt, stmts, cmt) ==
    IF i > Len(text) THEN AddStmt(stmts, AddTok(stmt, tok))
    ELSE LET c == text[i]
         IN  IF cmt /\ c # NL THEN Scan(text, i + 1, tok, stmt, stmts, TRUE)
             ELSE IF c \in CharsComment THEN Scan(text, i + 1, <<>>, AddTok(stmt, tok), stmts, TRUE)
             ELSE IF c \in CharsStop
                  THEN Scan(text, i + 1, <<>>, <<>>, AddStmt(stmts, AddTok(stmt, tok)), FALSE)
             ELSE IF c \in CharsClean THEN Scan(text, i + 1, <<>>, AddTok(stmt, tok), stmts, FALSE)
             ELSE Scan(text, i + 1, Append(tok, c), stmt, stmts, FALSE)

\* every statement Extra_FileReaderGetTokens returns for a text given as its
\* newline-terminated lines, in order (a comment ends with its line)
RECURSIVE Extra_FileReaderGetTokens(_)
Extra_FileReaderGetTokens(lines) ==
    IF lines = <<>> THEN <<>>
    ELSE Scan(Head(lines), 1, <<>>, <<>>, <<>>, FALSE) \o Extra_FileReaderGetTokens(Tail(lines))

\* the written text is handed to Io_ReadBenchNetwork
Reparse ==
    /\ wpc = "done"
    /\ pc = "idle"
    /\ input' = Extra_FileReaderGetTokens(out)
    /\ rest' = input'
    /\ iLine' = 0
    /\ ntk' = EmptyNtk
    /\ alive' = TRUE
    /\ fLuts' = FALSE
    /\ pc' = "reading"
    /\ result' = "none"
    /\ err' = [msg |-> "none", line |-> 0]
    /\ parsed' = EmptyNtk
    /\ last' = <<>>
    /\ UNCHANGED writerVars
    /\ UNCHANGED <<runVars, cutsVars>>

NextWrite ==
    \/ WritePi
    \/ WritePo
    \/ WriteLatch
    \/ WriteNode
    \/ WriteDone
    \/ Reparse
    \/ ReadStatement
    \/ EndOfInput

SpecWrite == InitWrite /\ [][NextWrite]_vars

(***************************************************************************)
(* The end-to-end scenario: the circuit text of main() is tokenized, read  *)
(* by Io_ReadBenchNetwork, and the network read is written out by          *)
(* Io_WriteBenchOne as it is, with no command run in between.              *)
(***************************************************************************)
n0 == <<"0">>
n3 == <<"3">>
n4 == <<"4">>
n5 == <<"5">>

\* the text lines "KW(name)\n", "o = KW(a)\n" and "o = KW(a, b)\n"
DeclLine(kw, name) == kw \o <<"(">> \o name \o <<")", NL>>

StmtLine1(o, kw, a) == o \o <<" ", "=", " ">> \o kw \o <<"(">> \o a \o <<")", NL>>

StmtLine2(o, kw, a, b) ==
    o \o <<" ", "=", " ">> \o kw \o <<"(">> \o a \o <<",", " ">> \o b \o <<")", NL>>

\* the circuit text of main(), line by line; the last line has no newline
pFileContent ==
    <<DeclLine(tINPUT, n0),
      DeclLine(tINPUT, tOne),
      StmtLine2(tTwo, tAND, n0, tOne),
      StmtLine1(n3, tNOT, n0),
      StmtLine2(n4, tAND, n3, n0),
      StmtLine2(n5, tAND, tTwo, n4),
      <<"O","U","T","P","U","T","(","5",")">> >>

\* lines put in front of the text: nothing, a comment, a latch
ScenarioHeads ==
    {<<>>,
     << <<"#"," ","c","1","7",NL>> >>,
     << StmtLine1(nQ, tDFF, n0) >>}

\* the texts read: a head, then the first k lines of the text of main()
ScenarioTexts ==
    {h \o SubSeq(pFileContent, 1, k) : h \in ScenarioHeads, k \in 0..Len(pFileContent)}

InitScenario ==
    /\ \E text \in ScenarioTexts : ReaderStart(Extra_FileReaderGetTokens(text))
    /\ WriterIdle
    /\ RunIdle
    /\ CutsIdle

\* the network Io_ReadBenchNetwork returned is given to Io_WriteBenchOne
SerializeParsed ==
    /\ pc = "ready"
    /\ wpc = "off"
    /\ rpc = "off"
    /\ g' = ntk
    /\ wpc' = "writing"
    /\ wi' = 0
    /\ out' = <<>>
    /\ wret' = <<>>
    /\ UNCHANGED readerVars
    /\ UNCHANGED <<runVars, cutsVars>>

NextScenario ==
    \/ ReadStatement
    \/ EndOfInput
    \/ SerializeParsed
    \/ WritePi
    \/ WritePo
    \/ WriteLatch
    \/ WriteNode
    \/ WriteDone

SpecScenario == InitScenario /\ [][NextScenario]_vars


(***************************************************************************)
(* enumerate_cuts of the mockturtle wrapper: public_bench_reader fills a   *)
(* klut_network through the callbacks lorina::read_bench makes, the table  *)
(* index_to_node is built from the reader's signals, cut_enumeration runs  *)
(* and the nodes are reported.  A statement is what read_bench has parsed  *)
(* from a line: an input, an output, an assignment or a gate.  read_bench  *)
(* calls on_assign and on_gate only when every input name is known (the    *)
(* names vdd and gnd, the inputs, the outputs of the calls made) and keeps *)
(* the other statements until their inputs are.                            *)
(***************************************************************************)
MaxLines == 3       \* statements in a circuit given to enumerate_cuts

LowerCase == <<"a","b","c","d","e","f","g","h","i","j","k","l","m",
               "n","o","p","q","r","s","t","u","v","w","x","y","z">>

\* the order of std::string keys in std::map (names are lower-case letters)
CharRank(c) == CHOOSE k \in 1..Len(LowerCase) : LowerCase[k] = c

RECURSIVE StrLess(_, _)
StrLess(a, b) ==
    IF a = <<>> THEN b # <<>>
    ELSE IF b = <<>> THEN FALSE
    ELSE IF a[1] = b[1] THEN StrLess(Tail(a), Tail(b))
    ELSE CharRank(a[1]) < CharRank(b[1])

\* signals[name] = v
SetSignal(sigs, name, v) ==
    [n \in (DOMAIN sigs) \cup {name} |-> IF n = name THEN v ELSE sigs[n]]

\* signals[name] as an rvalue: a missing name is inserted with signal 0
GetSignal(sigs, name) == IF name \in DOMAIN sigs THEN sigs[name] ELSE 0

\* klut_network: node 0 is the constant false, node 1 the constant true
KlutEmpty ==
    [nodes |-> <<[kind |-> "const", children |-> <<>>, func |-> <<"0">>],
                 [kind |-> "const", children |-> <<>>, func |-> <<"1">>]>>,
     pos |-> <<>>]

get_constant(value) == IF value THEN 1 ELSE 0

\* create_pi: the new node's index is the number of nodes so far
create_pi(net) ==
    [aig |-> [net EXCEPT !.nodes = Append(@, [kind |-> "pi", children |-> <<>>, func |-> <<>>])],
     sig |-> Len(net.nodes)]

\* create_node: a node with the same children and function is reused
create_node(net, children, func) ==
    LET same == {k \in 1..Len(net.nodes) :
                    /\ net.nodes[k].kind = "gate"
                    /\ net.nodes[k].children = children
                    /\ net.nodes[k].func = func}
    IN  IF same # {}
        THEN [aig |-> net, sig |-> (CHOOSE k \in same : TRUE) - 1]
        ELSE [aig |-> [net EXCEPT !.nodes = Append(@, [kind |-> "gate", children |-> children,
                                                        func |-> func])],
              sig |-> Len(net.nodes)]

create_po(net, sig) == [net EXCEPT !.pos = Append(@, sig)]

\* the statements of the circuits
CutInput(name)  == [kind |-> "input", name |-> name]
CutOutput(name) == [kind |-> "output", name |-> name]
CutAssign(i, o) == [kind |-> "assign", inputs |-> <<i>>, output |-> o]
CutGate(ins, o, type) == [kind |-> "gate", inputs |-> ins, output |-> o, type |-> type]

CutStmts ==
    {CutInput(nA), CutInput(nB), CutOutput(nY), CutOutput(nA),
     CutAssign(nA, nY), CutAssign(tvdd, nY),
     CutGate(<<nA, nB>>, nY, tAND), CutGate(<<nA, nB>>, nZ, tAND),
     CutGate(<<nA>>, nY, tNOT), CutGate(<<nY, nB>>, nZ, tOR)}

\* public_bench_reader(aig) on a fresh klut_network, then read_bench starts
InitCuts ==
    /\ cpc = "reading"
    /\ \E text \in SeqsUpTo(CutStmts, MaxLines) : circuit = text
    /\ pending = <<>>
    /\ known = {tvdd, tgnd}
    /\ signals = SetSignal(SetSignal(<<>>, tgnd, get_constant(FALSE)), tvdd, get_constant(TRUE))
    /\ outputs = <<>>
    /\ aig = KlutEmpty
    /\ rc = "success"
    /\ index_to_node = <<>>
    /\ enumPos = 0
    /\ report = <<>>
    /\ ReaderIdle
    /\ WriterIdle
    /\ RunIdle

\* read_bench can call the statement: all its inputs are known
Callable(st) == \A k \in 1..Len(st.inputs) : st.inputs[k] \in known

CallablePending == {k \in 1..Len(pending) : Callable(pending[k])}

RemoveAt(q, k) == SubSeq(q, 1, k - 1) \o SubSeq(q, k + 1, Len(q))

\* the next line is read once no kept statement can be called
NextLine(kind) ==
    /\ cpc = "reading"
    /\ CallablePending = {}
    /\ circuit # <<>>
    /\ Head(circuit).kind = kind

on_input ==
    /\ NextLine("input")
    /\ LET name == Head(circuit).name
           r    == create_pi(aig)
       IN  /\ signals' = SetSignal(signals, name, r.sig)
           /\ aig' = r.aig
           /\ known' = known \cup {name}
    /\ circuit' = Tail(circuit)
    /\ UNCHANGED <<cpc, pending, outputs, rc, index_to_node, enumPos, report>>
    /\ UNCHANGED <<readerVars, writerVars, runVars>>

on_output ==
    /\ NextLine("output")
    /\ outputs' = Append(outputs, Head(circuit).name)
    /\ circuit' = Tail(circuit)
    /\ UNCHANGED <<cpc, pending, known, signals, aig, rc, index_to_node, enumPos, report>>
    /\ UNCHANGED <<readerVars, writerVars, runVars>>

\* read_bench keeps a statement with an input it does not know yet
call_deferred ==
    /\ \/ NextLine("assign")
       \/ NextLine("gate")
    /\ ~Callable(Head(circuit))
    /\ pending' = Append(pending, Head(circuit))
    /\ circuit' = Tail(circuit)
    /\ UNCHANGED <<cpc, known, signals, outputs, aig, rc, index_to_node, enumPos, report>>
    /\ UNCHANGED <<readerVars, writerVars, runVars>>

\* the statement of the given kind read_bench calls now: the line just read,
\* or a kept statement that has become callable
Called(kind, st) ==
    /\ cpc = "reading"
    /\ \/ /\ NextLine(kind)
          /\ st = Head(circuit)
          /\ Callable(st)
          /\ circuit' = Tail(circuit)
          /\ pending' = pending
       \/ \E k \in CallablePending :
             /\ pending[k].kind = kind
             /\ st = pending[k]
             /\ pending' = RemoveAt(pending, k)
             /\ circuit' = circuit

on_assign ==
    \E st \in CutStmts :
       /\ Called("assign", st)
       /\ signals' = SetSignal(signals, st.output, signals[st.inputs[1]])
       /\ known' = known \cup {st.output}
       /\ UNCHANGED <<cpc, outputs, aig, rc, index_to_node, enumPos, report>>
       /\ UNCHANGED <<readerVars, writerVars, runVars>>

on_gate ==
    \E st \in CutStmts :
       /\ Called("gate", st)
       /\ LET input_signals == [k \in 1..Len(st.inputs) |-> GetSignal(signals, st.inputs[k])]
              r == create_node(aig, input_signals, <<st.type, Len(st.inputs)>>)
          IN  /\ signals' = SetSignal(signals, st.output, r.sig)
              /\ aig' = r.aig
       /\ known' = known \cup {st.output}
       /\ UNCHANGED <<cpc, outputs, rc, index_to_node, enumPos, report>>
       /\ UNCHANGED <<readerVars, writerVars, runVars>>

\* read_bench returns: a statement still kept is a parse error
read_bench ==
    /\ cpc = "reading"
    /\ circuit = <<>>
    /\ CallablePending = {}
    /\ rc' = IF pending = <<>> THEN "success" ELSE "parse_error"
    /\ cpc' = "table"
    /\ UNCHANGED <<circuit, pending, known, signals, outputs, aig, index_to_node, enumPos, report>>
    /\ UNCHANGED <<readerVars, writerVars, runVars>>

\* the loop over the signals in key order: a later name with the same index
\* replaces the earlier one
IndexToNode(sigs) ==
    [i \in {sigs[n] : n \in DOMAIN sigs} |->
        CHOOSE n \in DOMAIN sigs :
            /\ sigs[n] = i
            /\ \A m \in DOMAIN sigs : sigs[m] = i => (m = n \/ StrLess(m, n))]

BuildTable ==
    /\ cpc = "table"
    /\ index_to_node' = IndexToNode(signals)
    /\ cpc' = "checked"
    /\ UNCHANGED <<circuit, pending, known, signals, outputs, aig, rc, enumPos, report>>
    /\ UNCHANGED <<readerVars, writerVars, runVars>>

\* ~public_bench_reader, run when enumerate_cuts returns: a PO per output
RECURSIVE Destructor(_, _, _)
Destructor(sigs, net, outs) ==
    IF outs = <<>> THEN [signals |-> sigs, aig |-> net]
    ELSE LET o == Head(outs)
             v == GetSignal(sigs, o)
         IN  Destructor(SetSignal(sigs, o, v), create_po(net, v), Tail(outs))

ReturnFailure ==
    /\ cpc = "checked"
    /\ rc # "success"
    /\ signals' = Destructor(signals, aig, outputs).signals
    /\ aig' = Destructor(signals, aig, outputs).aig
    /\ cpc' = "returned"
    /\ UNCHANGED <<circuit, pending, known, outputs, rc, index_to_node, enumPos, report>>
    /\ UNCHANGED <<readerVars, writerVars, runVars>>

cut_enumeration ==
    /\ cpc = "checked"
    /\ rc = "success"
    /\ enumPos' = Len(aig.pos)
    /\ cpc' = "report"
    /\ UNCHANGED <<circuit, pending, known, signals, outputs, aig, rc, index_to_node, report>>
    /\ UNCHANGED <<readerVars, writerVars, runVars>>

\* foreach_node: the nodes from index 2 on are reported
foreach_node ==
    /\ cpc = "report"
    /\ report' = [k \in 1..(Len(aig.nodes) - 2) |-> k + 1]
    /\ cpc' = "return"
    /\ UNCHANGED <<circuit, pending, known, signals, outputs, aig, rc, index_to_node, enumPos>>
    /\ UNCHANGED <<readerVars, writerVars, runVars>>

ReturnCuts ==
    /\ cpc = "return"
    /\ signals' = Destructor(signals, aig, outputs).signals
    /\ aig' = Destructor(signals, aig, outputs).aig
    /\ cpc' = "returned"
    /\ UNCHANGED <<circuit, pending, known, outputs, rc, index_to_node, enumPos, report>>
    /\ UNCHANGED <<readerVars, writerVars, runVars>>

NextCuts ==
    \/ on_input
    \/ on_output
    \/ call_deferred
    \/ on_assign
    \/ on_gate
    \/ read_bench
    \/ BuildTable
    \/ ReturnFailure
    \/ cut_enumeration
    \/ foreach_node
    \/ ReturnCuts

SpecCuts == InitCuts /\ [][NextCuts]_vars


(***************************************************************************)
(* runAbcCommands, in its two implementations (abc_extension/main.c and    *)
(* abc_wrapper/run_abc.h): the text is read, the network converted to a    *)
(* logic network and made the frame's current network, the command run,    *)
(* and a network converted to a netlist and written out.  The networks     *)
(* allocated on the way are the elements of heap; a pointer is an index of *)
(* heap, 0 is NULL.  Abc_FrameReplaceCurrentNetwork deletes the network it *)
(* replaces.  A call on NULL or on a deleted network is undefined: it may  *)
(* crash, or go on with what the memory holds.                             *)
(***************************************************************************)
Impls == {"abc_extension", "abc_wrapper"}

\* command strings: no command, one command, two commands
Commands == {<<>>, <<"strash">>, <<"strash", "dc2">>}

RunStmts ==
    {<<tINPUT, nA>>, <<tOUTPUT, nY>>, <<nY, tNOT, nA>>, <<nY, tFOO, nA, nB>>,
     <<nQ, tDFF, nA>>}

InitRun ==
    /\ \E text \in SeqsUpTo(RunStmts, MaxStmts) : ReaderStart(text)
    /\ WriterIdle
    /\ impl \in Impls
    /\ rpc = "parse"
    /\ sCommand \in Commands
    /\ heap = <<>>
    /\ pNtk = 0
    /\ pNtkCur = 0
    /\ steps = <<>>
    /\ buffer = <<>>
    /\ CutsIdle

Object(graph, gen) == [live |-> TRUE, graph |-> graph, gen |-> gen]

Call(fn, arg) == [fn |-> fn, arg |-> arg]

\* pNtk = Abc_NtkToLogic(Io_ReadBenchNetwork(p)): the value returned by
\* the reader is passed on without a test
Abc_NtkToLogic ==
    /\ rpc = "parse"
    /\ pc \in {"ready", "failed"}
    /\ IF result = "pNtk"
       THEN /\ heap' = <<Object(ntk, 0), Object(ntk, 0)>>
            /\ pNtk' = 2
            /\ steps' = Append(steps, Call("Abc_NtkToLogic", 1))
            /\ rpc' = "replace"
       ELSE /\ heap' = heap
            /\ pNtk' = 0
            /\ steps' = Append(steps, Call("Abc_NtkToLogic", 0))
            /\ rpc' \in {"crashed", "replace"}
    /\ UNCHANGED <<impl, sCommand, pNtkCur, buffer>>
    /\ UNCHANGED <<readerVars, writerVars, cutsVars>>

\* the network cur is deleted
Abc_NtkDelete(h, cur) == IF cur = 0 THEN h ELSE [h EXCEPT ![cur].live = FALSE]

\* Abc_FrameReplaceCurrentNetwork(pAbc, pNtk): nothing for NULL; else the
\* current network is deleted and pNtk becomes the current network
Abc_FrameReplaceCurrentNetwork ==
    /\ rpc = "replace"
    /\ steps' = Append(steps, Call("Abc_FrameReplaceCurrentNetwork", pNtk))
    /\ IF pNtk = 0
       THEN UNCHANGED <<heap, pNtkCur>>
       ELSE /\ heap' = Abc_NtkDelete(heap, pNtkCur)
            /\ pNtkCur' = pNtk
    /\ rpc' = "execute"
    /\ UNCHANGED <<impl, sCommand, pNtk, buffer>>
    /\ UNCHANGED <<readerVars, writerVars, cutsVars>>

\* the networks the optimizer may hand back for a network: the same
\* interface, with all, some or none of the internal nodes
Optimized(graph) ==
    {[graph EXCEPT !.nodes = SubSeq(graph.nodes, 1, k)] : k \in 0..Len(graph.nodes)}

\* every command of the string builds a new network from the current one and
\* replaces the current network by it; without a current network a command
\* does nothing
RECURSIVE Execute(_, _, _, _)
Execute(h, cur, cmds, graph) ==
    IF cmds = <<>> \/ cur = 0 THEN [heap |-> h, cur |-> cur]
    ELSE LET h1 == Append(Abc_NtkDelete(h, cur), Object(graph, h[cur].gen + 1))
         IN  Execute(h1, Len(h1), Tail(cmds), graph)

Cmd_CommandExecute ==
    /\ rpc = "execute"
    /\ steps' = Append(steps, Call("Cmd_CommandExecute", pNtkCur))
    /\ \E graph \in (IF pNtkCur = 0 THEN {EmptyNtk} ELSE Optimized(heap[pNtkCur].graph)) :
          /\ heap' = Execute(heap, pNtkCur, sCommand, graph).heap
          /\ pNtkCur' = Execute(heap, pNtkCur, sCommand, graph).cur
    /\ rpc' = "tonetlist"
    /\ UNCHANGED <<impl, sCommand, pNtk, buffer>>
    /\ UNCHANGED <<readerVars, writerVars, cutsVars>>

\* the network each implementation hands to Abc_NtkToNetlistBench
SerializerArg == IF impl = "abc_extension" THEN pNtk ELSE pNtkCur

\* what Abc_NtkToNetlistBench can find at a pointer: nothing usable (the
\* call crashes), or a network; a deleted network's memory may still hold
\* its contents or those of the network allocated after it
Crashes == [crash |-> TRUE, graph |-> EmptyNtk]

Finds(graph) == [crash |-> FALSE, graph |-> graph]

Found(h, arg) ==
    IF arg = 0 THEN {Crashes, Finds(EmptyNtk)}
    ELSE IF h[arg].live THEN {Finds(h[arg].graph)}
    ELSE {Crashes, Finds(h[arg].graph), Finds(h[Len(h)].graph)}

\* pNtkTemp = Abc_NtkToNetlistBench(...); Io_WriteBenchOne(memFile, pNtkTemp)
Abc_NtkToNetlistBench ==
    /\ rpc = "tonetlist"
    /\ steps' = Append(steps, Call("Abc_NtkToNetlistBench", SerializerArg))
    /\ \E found \in Found(heap, SerializerArg) :
          IF found.crash
          THEN /\ rpc' = "crashed"
               /\ UNCHANGED writerVars
          ELSE /\ rpc' = "write"
               /\ g' = found.graph
               /\ wpc' = "writing"
               /\ UNCHANGED <<wi, out, wret>>
    /\ UNCHANGED <<impl, sCommand, heap, pNtk, pNtkCur, buffer>>
    /\ UNCHANGED <<readerVars, cutsVars>>

\* fclose(memFile); return buffer
ReturnBuffer ==
    /\ rpc = "write"
    /\ wpc = "done"
    /\ buffer' = out
    /\ rpc' = "returned"
    /\ UNCHANGED <<impl, sCommand, heap, pNtk, pNtkCur, steps>>
    /\ UNCHANGED <<readerVars, writerVars, cutsVars>>

NextRun ==
    \/ ReadStatement
    \/ EndOfInput
    \/ Abc_NtkToLogic
    \/ Abc_FrameReplaceCurrentNetwork
    \/ Cmd_CommandExecute
    \/ Abc_NtkToNetlistBench
    \/ WritePi
    \/ WritePo
    \/ WriteLatch
    \/ WriteNode
    \/ WriteDone
    \/ ReturnBuffer

SpecRun == InitRun /\ [][NextRun]_vars


Init == InitRead \/ InitWrite \/ InitScenario \/ InitRun \/ InitCuts

Next == NextRead \/ NextWrite \/ NextScenario \/ NextRun \/ NextCuts

Spec == Init /\ [][Next]_vars

(***************************************************************************)
(* Properties.                                                             *)
(***************************************************************************)
MsgGateType   == "Cannot determine gate type"
MsgSingleLut  == "Reading truth table of single-input node has failed"
MsgConversion == {"Converting to BDD has failed", "Converting to SOP has failed"}

LastNode(n) == n.nodes[Len(n.nodes)]

\* the statement is one that the loop body answers with a format error
FormatError(toks) == ~Dispatch(EmptyNtk, FALSE, toks, 1).ok

\* the latest loop iteration has just run (no later step has been taken)
JustDispatched == pc = "reading" \/ (pc = "failed" /\ err.msg \notin MsgConversion)

\* C1: a format error makes the parse fail for good: the network is deleted,
\* NULL is returned and no step follows, whatever statements remain; a
\* network is returned only in the ready state, with every statement of the
\* text dispatched without a format error.
C1_FormatErrorIsTerminal ==
    [][ /\ pc # "failed"
        /\ (pc = "reading" /\ rest # <<>> /\ FormatError(Head(rest))) => pc' = "failed"
        /\ pc' = "failed" => (~alive' /\ result' = "NULL")
        /\ result' = "pNtk" =>
              /\ pc' = "ready"
              /\ alive'
              /\ rest' = <<>>
              /\ iLine' = Len(input)
              /\ \A i \in 1..Len(input) : ~FormatError(input[i]) ]_vars

\* C1 witness: the parse has failed with statements left unread
C1_Witness ==
    /\ pc = "failed"
    /\ err.msg \notin MsgConversion
    /\ rest # <<>>
    /\ ~alive
    /\ result = "NULL"

\* the net a statement claims to drive ("none" for an output declaration)
OutputClaimed(toks) ==
    IF Len(toks) < 2 THEN <<"none">>
    ELSE IF IsInputDecl(toks[1]) THEN toks[2]
    ELSE IF IsOutputDecl(toks[1]) THEN <<"none">>
    ELSE toks[1]

\* a name some statement of the text declares: a primary input, the output
\* of a gate or of a latch, or one of the two constant nets
Declared(text, name) ==
    \/ \E j \in 1..Len(text) : OutputClaimed(text[j]) = name
    \/ name \in {tgnd, tvdd}

\* the statement is name = AND ( a, b )
AndStatement(toks) ==
    /\ Len(toks) = 4
    /\ ~IsInputDecl(toks[1])
    /\ ~IsOutputDecl(toks[1])
    /\ toks[2] = tAND

\* C2: a text in which a statement y = AND(a, b) names an input that no
\* statement declares is not parsed into a network, and while the text is
\* read no net is created for such a name.
C2_UnresolvedReferenceFails ==
    \A i \in 1..Len(input) :
        AndStatement(input[i]) =>
            \A k \in {3, 4} :
                ~Declared(input, input[i][k]) =>
                    /\ result # "pNtk"
                    /\ alive => ~Abc_NtkFindNet(ntk, input[i][k])

\* C3: a text in which two statements claim the same output net is not
\* parsed into a network, and no claimed net of a network has two drivers.
C3_DuplicateDriverFails ==
    result = "pNtk" =>
        \A i, j \in 1..Len(input) :
            (i # j /\ OutputClaimed(input[i]) # <<"none">>) =>
                /\ OutputClaimed(input[i]) # OutputClaimed(input[j])
                /\ Abc_ObjFaninNum(ntk, OutputClaimed(input[i])) <= 1

\* the latest statement is name = LUT sig ( operand )
SingleInputLut(toks) ==
    /\ Len(toks) = 4
    /\ ~IsInputDecl(toks[1])
    /\ ~IsOutputDecl(toks[1])
    /\ toks[2] = tLUT

\* C4: for a LUT statement with one operand, 0x2 gives a buffer of the
\* operand, 0x1 an inverter, 0x3 a format error with no network returned,
\* and so does every other one-digit table that is not 0, 1 or 2.
C4_SingleInputLut ==
    (JustDispatched /\ SingleInputLut(last)) =>
        /\ last[3] = <<"0","x","2">> =>
              /\ pc = "reading"
              /\ LastNode(ntk) = [out |-> last[1], fanins |-> <<last[4]>>, func |-> "BUF", tt |-> <<>>]
        /\ last[3] = <<"0","x","1">> =>
              /\ pc = "reading"
              /\ LastNode(ntk) = [out |-> last[1], fanins |-> <<last[4]>>, func |-> "INV", tt |-> <<>>]
        /\ last[3] = <<"0","x","3">> =>
              /\ pc = "failed"
              /\ err.msg = MsgSingleLut
              /\ result = "NULL"
              /\ ~alive
        /\ (/\ Len(last[3]) = 3
            /\ StrnEq(last[3], t0x, 2)
            /\ HexVal(last[3][3]) < 16
            /\ last[3][3] \notin {"0", "1", "2"}) =>
              /\ pc = "failed"
              /\ err.msg = MsgSingleLut
              /\ result = "NULL"

\* C4 witness: LUT 0x3 with one operand has just been refused
C4_Witness ==
    /\ SingleInputLut(last)
    /\ last[3] = <<"0","x","3">>
    /\ pc = "failed"
    /\ err.msg = MsgSingleLut

\* the drivers of a net: kind, function and ordered fanins of each
DriversOf(n, name) ==
    {[kind |-> "pi", func |-> "", fanins |-> <<>>] : i \in {k \in 1..Len(n.pis) : n.pis[k] = name}}
    \cup {[kind |-> "latch", func |-> "", fanins |-> <<n.latches[i].in>>] :
             i \in {k \in 1..Len(n.latches) : n.latches[k].out = name}}
    \cup {[kind |-> "node", func |-> n.nodes[i].func, fanins |-> n.nodes[i].fanins] :
             i \in {k \in 1..Len(n.nodes) : n.nodes[k].out = name}}

\* every node is a 2-input AND or a 1-input buffer or inverter
PrimitiveGraph(n) ==
    \A i \in 1..Len(n.nodes) :
        \/ n.nodes[i].func = "AND" /\ Len(n.nodes[i].fanins) = 2
        \/ n.nodes[i].func \in {"BUF", "INV"} /\ Len(n.nodes[i].fanins) = 1

SameStructure(n, m) ==
    /\ NetNames(n) = NetNames(m)
    /\ \A name \in NetNames(m) : DriversOf(n, name) = DriversOf(m, name)
    /\ Range(n.pis) = Range(m.pis)
    /\ Range(n.pos) = Range(m.pos)

\* C5: the text written for a netlist of 2-input ANDs, buffers and inverters
\* is read back as a network with the same net names and, for each net, the
\* same driver function and ordered fanins.
C5_RoundTrip ==
    (wpc = "done" /\ pc \in {"ready", "failed"} /\ PrimitiveGraph(g)) =>
        /\ pc = "ready"
        /\ SameStructure(ntk, g)

\* no net name of the netlist starts with the letters INPUT or OUTPU
NoDeclPrefix(n) == \A name \in NetNames(n) : ~IsInputDecl(name) /\ ~IsOutputDecl(name)

\* the round trip of C5, for netlists without such net names
RoundTripPlainNames ==
    (wpc = "done" /\ pc \in {"ready", "failed"} /\ PrimitiveGraph(g) /\ NoDeclPrefix(g)) =>
        /\ pc = "ready"
        /\ SameStructure(ntk, g)

\* the objects written before the nodes
BeforeNodes(n) == Len(n.pis) + Len(n.pos) + Len(n.latches)

\* C6: for a node with more than 2 inputs nothing is written, and the
\* serialization does not end with success.
C6_WideNodeRejected ==
    \A i \in 1..Len(g.nodes) :
        Len(g.nodes[i].fanins) > 2 =>
            /\ wpc # "done"
            /\ Len(out) < BeforeNodes(g) + i
            /\ Len(wret) < i

UpperCase == <<"A","B","C","D","E","F","G","H","I","J","K","L","M",
               "N","O","P","Q","R","S","T","U","V","W","X","Y","Z">>

ToUpper(c) ==
    IF \E i \in 1..26 : LowerCase[i] = c
    THEN UpperCase[CHOOSE i \in 1..26 : LowerCase[i] = c]
    ELSE c

UpperTok(tok) == [i \in 1..Len(tok) |-> ToUpper(tok[i])]

\* the canonical spellings of the primitive keywords
CanonicalKeywords ==
    {tAND, tOR, tNAND, tNOR, tXOR, tXNOR, tNXOR, tBUF, tBUFF, tNOT, tMUX, tgnd, tvdd}

\* the latest statement went to the primitive-keyword branch
GateStatement(toks) ==
    /\ Len(toks) >= 2
    /\ ~IsInputDecl(toks[1])
    /\ ~IsOutputDecl(toks[1])
    /\ ~StrnEq(toks[2], tDFF, 3)
    /\ ~StrEq(toks[2], tLUT)

\* C7: a keyword that is a case variant of a canonical keyword creates the
\* gate function of that keyword; any other keyword is refused as an
\* unrecognized gate type, with the line of the statement.
C7_KeywordCaseInsensitive ==
    (JustDispatched /\ GateStatement(last)) =>
        IF \E c \in CanonicalKeywords : UpperTok(c) = UpperTok(last[2])
        THEN /\ pc = "reading"
             /\ \A c \in CanonicalKeywords :
                   UpperTok(c) = UpperTok(last[2]) => LastNode(ntk).func = GateFunc(c)
        ELSE /\ pc = "failed"
             /\ err = [msg |-> MsgGateType, line |-> Len(input) - Len(rest)]

\* C8: a statement is a primary-input (primary-output) declaration exactly
\* when its first token is INPUT (OUTPUT); it then registers the named input
\* (output) and nothing else, and every other statement is dispatched on its
\* second token as a node declaration.
C8_ExactDeclKeyword ==
    [][ (pc = "reading" /\ rest # <<>> /\ Len(Head(rest)) >= 2) =>
          LET t == Head(rest)
          IN  /\ t[1] = tINPUT <=> (pc' = "reading" /\ ntk' = Io_ReadCreatePi(ntk, t[2]))
              /\ t[1] = tOUTPUT <=> (pc' = "reading" /\ ntk' = Io_ReadCreatePo(ntk, t[2]))
              /\ t[1] \notin {tINPUT, tOUTPUT} =>
                    ntk' = DispatchDecl(ntk, fLuts, t, iLine + 1).ntk ]_vars

\* the nodes added after the statement loop
AddedNodes == SubSeq(ntk.nodes, Len(parsed.nodes) + 1, Len(ntk.nodes))

\* the net `name` got one constant node `func` if it was there without a
\* driver when the loop ended, and no node otherwise
SynthesizedFor(name, func) ==
    LET added == {k \in 1..Len(AddedNodes) : AddedNodes[k].out = name}
    IN  IF Abc_NtkFindNet(parsed, name) /\ Abc_ObjFaninNum(parsed, name) = 0
        THEN /\ Cardinality(added) = 1
             /\ \A k \in added :
                   AddedNodes[k] = [out |-> name, fanins |-> <<>>, func |-> func, tt |-> <<>>]
        ELSE added = {}

\* what the end of the parse leaves as the statements built it
OnlyNodesAdded ==
    /\ ntk.pis = parsed.pis
    /\ ntk.pos = parsed.pos
    /\ ntk.latches = parsed.latches
    /\ Len(ntk.nodes) >= Len(parsed.nodes)
    /\ SubSeq(ntk.nodes, 1, Len(parsed.nodes)) = parsed.nodes

LineToks(line) ==
    LET st == Scan(line, 1, <<>>, <<>>, <<>>, FALSE)
    IN  IF st = <<>> THEN <<>> ELSE st[1]

\* line k of the text is the statement of the k-th object, counting the
\* primary inputs, then the primary outputs, then the latches, then the nodes
LineInOrder(n, k, line) ==
    LET nPi == Len(n.pis)
        nPo == Len(n.pos)
        nLa == Len(n.latches)
    IN  IF k <= nPi THEN LineToks(line) = <<tINPUT, n.pis[k]>>
        ELSE IF k <= nPi + nPo THEN LineToks(line) = <<tOUTPUT, n.pos[k - nPi]>>
        ELSE IF k <= nPi + nPo + nLa
             THEN LineToks(line) = <<n.latches[k - nPi - nPo].out, tDFF, n.latches[k - nPi - nPo].in>>
        ELSE /\ k <= nPi + nPo + nLa + Len(n.nodes)
             /\ Len(LineToks(line)) >= 2
             /\ LineToks(line)[1] = n.nodes[k - nPi - nPo - nLa].out
             /\ LineToks(line)[2] \in {tvdd, tBUFF, tNOT, tAND}

\* C10: the text has the INPUT lines in primary-input order, then the OUTPUT
\* lines in primary-output order, then one DFF line per latch, then one
\* statement per node in node order, each object written once (stated of
\* the writer's states; the text does not change afterwards).
C10_EmissionOrder ==
    (wpc \in {"writing", "done"} /\ pc = "idle") =>
        /\ \A k \in 1..Len(out) : LineInOrder(g, k, out[k])
        /\ wpc = "done" => Len(out) = BeforeNodes(g) + Len(g.nodes)

\* C10 witness: a netlist with inputs, outputs, latches and nodes was written
C10_Witness ==
    /\ wpc = "done"
    /\ Len(g.pis) >= 2
    /\ Len(g.pos) >= 2
    /\ Len(g.latches) >= 2
    /\ Len(g.nodes) >= 2
    /\ Len(out) = BeforeNodes(g) + Len(g.nodes)

(***************************************************************************)
(* The end-to-end scenario.                                                *)
(***************************************************************************)
ScenarioStmts == Extra_FileReaderGetTokens(pFileContent)

\* the statements of a text that are not INPUT or OUTPUT declarations
GateStmts(stmts) ==
    {stmts[i] : i \in {k \in 1..Len(stmts) : stmts[k][1] \notin {tINPUT, tOUTPUT}}}

ScenarioNode(o, fanins, func) == [out |-> o, fanins |-> fanins, func |-> func, tt |-> <<>>]

\* C11: the text of main() is read as the graph with primary inputs 0 and 1,
\* primary output 5 and exactly the four nodes 2 = AND(0, 1), 3 = NOT(0),
\* 4 = AND(3, 0), 5 = AND(2, 4); no constant node is synthesized for it; and
\* the text written for that graph has the same set of gate statements.
C11_EndToEnd ==
    input = ScenarioStmts =>
        /\ pc # "failed"
        /\ pc = "ready" =>
              /\ ntk.pis = <<n0, tOne>>
              /\ ntk.pos = <<n5>>
              /\ ntk.latches = <<>>
              /\ ntk.nodes = <<ScenarioNode(tTwo, <<n0, tOne>>, "AND"),
                               ScenarioNode(n3, <<n0>>, "INV"),
                               ScenarioNode(n4, <<n3, n0>>, "AND"),
                               ScenarioNode(n5, <<tTwo, n4>>, "AND")>>
              /\ ntk = parsed
        /\ wpc = "done" =>
              /\ g = ntk
              /\ GateStmts(Extra_FileReaderGetTokens(out)) = GateStmts(input)

\* the text of main() was read and the graph written out
C11_Witness ==
    /\ input = ScenarioStmts
    /\ Len(input) = 7
    /\ pc = "ready"
    /\ wpc = "done"
    /\ Len(out) = 7

(***************************************************************************)
(* The table and the order of steps of enumerate_cuts.                     *)
(***************************************************************************)
\* C12: once the table is built, every name of the reader's signal map
\* (gnd and vdd included) is the table's entry for its index, so that no
\* name's entry was overwritten by another name with the same index.
C12_TableOneToOne ==
    cpc = "checked" =>
        \A name \in DOMAIN signals : index_to_node[signals[name]] = name

\* C16: when cut_enumeration runs and when the report is generated, the
\* network has a primary output for every OUTPUT statement read.
C16_OutputsBeforeEnumeration ==
    /\ cpc \in {"report", "return", "returned"} /\ rc = "success" => enumPos = Len(outputs)
    /\ cpc = "return" => Len(aig.pos) = Len(outputs)

(***************************************************************************)
(* runAbcCommands.                                                         *)
(***************************************************************************)
\* C13: after a successful parse, in either implementation the network
\* handed to Abc_NtkToNetlistBench is the frame's current network as the
\* command left it, not the network made before the command ran, and the
\* graph written is that network's graph.
C13_SerializesCurrentNetwork ==
    result = "pNtk" =>
        \A k \in 1..Len(steps) :
            steps[k].fn = "Abc_NtkToNetlistBench" =>
                /\ steps[k].arg = pNtkCur
                /\ heap[steps[k].arg].live
                /\ heap[steps[k].arg].gen = Len(sCommand)
                /\ rpc \in {"write", "returned"}
                /\ g = heap[pNtkCur].graph

\* the property of C13 for the implementation of run_abc.h alone
WrapperSerializesCurrentNetwork ==
    impl = "abc_wrapper" => C13_SerializesCurrentNetwork


\* C15: when Io_ReadBenchNetwork returned NULL, no later step of
\* runAbcCommands has been called.
C15_ParseFailureIsTerminal ==
    result = "NULL" => steps = <<>>

(***************************************************************************)
(* Flip-flop dispatch.                                                     *)
(***************************************************************************)
\* a flip-flop statement: not an INPUT or OUTPUT declaration, and the second
\* token begins with DFF
DffStatement(toks) ==
    /\ Len(toks) >= 3
    /\ toks[1] \notin {tINPUT, tOUTPUT}
    /\ StrnEq(toks[2], tDFF, 3)

ScanStatement(toks) == DffStatement(toks) /\ Len(toks) = 6

ScanBuffer(toks, k) ==
    [out |-> toks[1] \o <<"_">> \o toks[k], fanins |-> <<toks[k]>>, func |-> "BUF", tt |-> <<>>]

\* the statements of the text read so far
ReadSoFar(text, left) == SubSeq(text, 1, Len(text) - Len(left))

\* reading toks made the scan-style expansion, and only that
ScanExpansion(toks) ==
    /\ pc' = "reading"
    /\ ntk'.pis = Append(ntk.pis, toks[1])
    /\ ntk'.nodes = ntk.nodes \o [k \in 1..4 |-> ScanBuffer(toks, k + 2)]
    /\ ntk'.pos = ntk.pos \o [k \in 1..4 |-> toks[1] \o <<"_">> \o toks[k + 2]]
    /\ ntk'.latches = ntk.latches
    /\ ntk'.nConstrs = ntk.nConstrs + 1

\* reading toks made one latch, and only that
OneLatch(toks) ==
    /\ pc' = "reading"
    /\ Len(ntk'.latches) = Len(ntk.latches) + 1
    /\ SubSeq(ntk'.latches, 1, Len(ntk.latches)) = ntk.latches
    /\ ntk'.latches[Len(ntk'.latches)].in = toks[3]
    /\ ntk'.latches[Len(ntk'.latches)].out = toks[1]
    /\ ntk'.pis = ntk.pis
    /\ ntk'.pos = ntk.pos
    /\ ntk'.nodes = ntk.nodes
    /\ ntk'.nConstrs = ntk.nConstrs

\* the constraint counter counts the 4-operand flip-flop statements read
CountsScans ==
    pc' = "reading" =>
        ntk'.nConstrs = Cardinality({i \in 1..Len(ReadSoFar(input', rest')) :
                                        ScanStatement(input'[i])})

\* C14: a flip-flop statement with exactly 4 operands is expanded scan-style
\* (one primary input on the flop output, per operand one buffer and one
\* primary output on <flopout>_<operand>, no latch, the constraint counter
\* one higher); every other flip-flop statement makes exactly one latch and
\* leaves the counter alone; the counter equals the number of 4-operand
\* flip-flop statements read.
C14_FlipFlopDispatch ==
    [][ (pc = "reading" /\ rest # <<>>) =>
          /\ ScanStatement(Head(rest)) => ScanExpansion(Head(rest))
          /\ (DffStatement(Head(rest)) /\ ~ScanStatement(Head(rest))) => OneLatch(Head(rest))
          /\ CountsScans ]_vars

\* the property of C14 for texts in which no statement starts with the
\* letters INPUT or OUTPU unless it is an INPUT or OUTPUT declaration
DffDispatchPlainNames ==
    [][ (/\ pc = "reading"
         /\ rest # <<>>
         /\ \A i \in 1..Len(input) :
               (IsInputDecl(input[i][1]) \/ IsOutputDecl(input[i][1]))
                   => input[i][1] \in {tINPUT, tOUTPUT}) =>
          /\ ScanStatement(Head(rest)) => ScanExpansion(Head(rest))
          /\ (DffStatement(Head(rest)) /\ ~ScanStatement(Head(rest))) => OneLatch(Head(rest))
          /\ CountsScans ]_vars

====
